---- MODULE Spec2Model ----
(***************************************************************************)
(* Model of the incremental extraction engine of dawson_extractor.py:      *)
(* DAWSONExtractor.__init__/_scan_existing_documents, _make_request,       *)
(* search_orders, filter_court_orders, download_document, extract_orders.  *)
(*                                                                         *)
(* Python strings are sequences of one-character strings, so that         *)
(* str.lower, str.replace, str.split, the `in` substring test and the      *)
(* f-string that builds a file name are computed, not assumed.             *)
(***************************************************************************)
EXTENDS Integers, Sequences, FiniteSets, TLC

(***************************************************************************)
(* Bounds of the model.                                                    *)
(***************************************************************************)
\* num_orders ranges over 0..MaxTarget
MaxTarget == 4
\* min_per_type ranges over 0..MaxMinPerType
MaxMinPerType == 2
\* at most MaxFaults network calls or file writes fail in a behaviour
MaxFaults == 2
\* a docket handed to filter_court_orders on its own has at most MaxEntries entries
MaxEntries == 3
\* a document type handed to _matches_document_type on its own has at most
\* MaxTypeLen characters
MaxTypeLen == 2

(***************************************************************************)
(* String helpers (str.lower, str.replace, str.split, `a in b`).           *)
(***************************************************************************)
\* str.lower on one character of the alphabet the model uses
LowerChar(c) ==
    CASE c = "A" -> "a"
      [] c = "B" -> "b"
      [] c = "C" -> "c"
      [] c = "T" -> "t"
      [] OTHER -> c

\* str.lower
Lower(s) == [i \in DOMAIN s |-> LowerChar(s[i])]

\* `w in r` for strings: w occurs contiguously in r (the empty string always does)
IsSubstring(w, r) ==
    \E i \in 0..(Len(r) - Len(w)) : SubSeq(r, i + 1, i + Len(w)) = w

\* str.replace(old, new) for one-character old and new
Replace(s, old, new) == [i \in DOMAIN s |-> IF s[i] = old THEN new ELSE s[i]]

\* str.split(sep) for a one-character separator: always at least one part
RECURSIVE Split(_, _)
Split(s, sep) ==
    IF \A i \in DOMAIN s : s[i] # sep
    THEN <<s>>
    ELSE LET i == CHOOSE k \in DOMAIN s :
                      s[k] = sep /\ \A j \in 1..(k - 1) : s[j] # sep
         IN  <<SubSeq(s, 1, i - 1)>> \o Split(SubSeq(s, i + 1, Len(s)), sep)

\* a set as a sequence in some fixed order (list(a_set))
RECURSIVE SetToSeq(_)
SetToSeq(S) ==
    IF S = {} THEN <<>>
    ELSE LET x == CHOOSE y \in S : TRUE IN <<x>> \o SetToSeq(S \ {x})

\* the elements of a sequence (set(a_list))
Range(s) == {s[i] : i \in DOMAIN s}

\* all orders random.shuffle can leave the list of a set in
Orders(S) ==
    {p \in [1..Cardinality(S) -> S] : \A x \in S : \E i \in DOMAIN p : p[i] = x}

(***************************************************************************)
(* File names: download_document builds them, the scan parses them back.   *)
(***************************************************************************)
PdfSuffix == <<".pdf">>

\* f"{safe_docket}_{document_id}_{filed_date}.pdf"
FileName(docket_number, document_id, filed_date) ==
    LET safe_docket == Replace(docket_number, "/", "_")
        date_part   == Split(filed_date, "T")[1]
    IN  safe_docket \o <<"_">> \o document_id \o <<"_">> \o date_part \o PdfSuffix

\* Path.stem of a *.pdf file
Stem(name) == SubSeq(name, 1, Len(name) - 1)

\* the ids the scan registers for one file name (none or one)
\* faulty variant: requires exactly three segments
ScannedIds_ThreeSegments(name) ==
    LET parts == Split(Stem(name), "_")
    IN  IF Len(parts) = 3 THEN {parts[2]} ELSE {}

ScannedIds(name) ==
    LET parts == Split(Stem(name), "_")
    IN  IF Len(parts) >= 2 THEN {parts[2]} ELSE {}

\* _scan_existing_documents over the *.pdf files of the output tree
ScanExistingDocuments(pdf_files) == UNION {ScannedIds(f) : f \in pdf_files}

(***************************************************************************)
(* The strings of the model: docket numbers, document ids, document types, *)
(* filing dates and search keywords.                                       *)
(***************************************************************************)
D1 == <<"1">>
D2 == <<"2">>
\* a docket number that holds the path separator line 271 replaces
D3 == <<"3", "/", "4">>

TypeA     == <<"A">>
TypeLowA  == <<"a">>
TypeB     == <<"B">>
TypeAB    == <<"A", "B">>
TypeC     == <<"C">>

DatePlain == <<"8">>
DateTime  == <<"9", "T", "0">>

NoId == <<>>

Entry(id, type, sealed, date) ==
    [docketEntryId |-> id, documentType |-> type, isSealed |-> sealed, filingDate |-> date]

Hit(docket, type) == [docketNumber |-> docket, documentType |-> type]

(***************************************************************************)
(* What the public API serves: per keyword the search results, per docket  *)
(* number the docket entries; with the part of the configuration that goes *)
(* with it (document_types, search_keywords).                              *)
(***************************************************************************)
\* one case whose docket lists the types A, A, A, B, A
QuotaWorld ==
    [ document_types  |-> <<TypeA, TypeB>>,
      search_keywords |-> <<"order">>,
      search |-> [k \in {"order"} |-> <<Hit(D1, TypeA)>>],
      cases  |-> [d \in {D1} |->
                    << Entry(<<"p">>, TypeA, FALSE, DatePlain),
                       Entry(<<"q">>, TypeA, FALSE, DatePlain),
                       Entry(<<"r">>, TypeA, FALSE, DatePlain),
                       Entry(<<"s">>, TypeB, FALSE, DatePlain),
                       Entry(<<"t">>, TypeA, FALSE, DatePlain) >>] ]

\* two cases that list documents (and a third that only shows up in a search
\* hit of a type that is not wanted): a sealed entry, an entry without id, a
\* type that is not wanted, a type matched by substring only, a document id
\* listed by both cases, a docket number with "/", a filing date with a time
MixedWorld ==
    [ document_types  |-> <<TypeA, TypeB>>,
      search_keywords |-> <<"order", "decision">>,
      search |-> [k \in {"order", "decision"} |->
                    IF k = "order"
                    THEN <<Hit(D1, TypeA), Hit(D2, TypeC), Hit(D3, TypeLowA)>>
                    ELSE <<Hit(D3, TypeB), Hit(D1, TypeA)>>],
      cases  |-> [d \in {D1, D2, D3} |->
                    IF d = D1 THEN
                      << Entry(<<"p">>, TypeA, FALSE, DatePlain),
                         Entry(<<"q">>, TypeLowA, TRUE, DatePlain),
                         Entry(NoId, TypeA, FALSE, DatePlain),
                         Entry(<<"r">>, TypeC, FALSE, DatePlain),
                         Entry(<<"u">>, TypeAB, FALSE, DatePlain) >>
                    ELSE IF d = D2 THEN
                      << Entry(<<"s">>, TypeC, FALSE, DatePlain) >>
                    ELSE
                      << Entry(<<"p">>, TypeA, FALSE, DatePlain),
                         Entry(<<"v">>, TypeB, FALSE, DateTime),
                         Entry(<<"w">>, TypeLowA, FALSE, DatePlain) >>] ]

\* two cases with pairwise distinct document ids, listing two documents and
\* one; two of the configured type names are equal up to case
PairWorld ==
    [ document_types  |-> <<TypeA, TypeLowA, TypeB>>,
      search_keywords |-> <<"order">>,
      search |-> [k \in {"order"} |-> <<Hit(D1, TypeA), Hit(D2, TypeB)>>],
      cases  |-> [d \in {D1, D2} |->
                    IF d = D1 THEN
                      << Entry(<<"x">>, TypeLowA, FALSE, DatePlain),
                         Entry(<<"y">>, TypeB, FALSE, DateTime) >>
                    ELSE
                      << Entry(<<"z">>, TypeA, FALSE, DatePlain) >>] ]

\* what a first run starts from: the API and document_types/search_keywords,
\* the match mode, and the *.pdf files the output tree holds already
Scenarios ==
    { [world |-> QuotaWorld, match_mode |-> "exact", files |-> {}],
      [world |-> PairWorld, match_mode |-> "exact", files |-> {}],
      [world |-> MixedWorld, match_mode |-> "substring", files |-> {}],
      [world |-> MixedWorld, match_mode |-> "substring",
       files |-> {FileName(D1, <<"p">>, DatePlain)}],
      [world |-> MixedWorld, match_mode |-> "exact",
       files |-> {<<"n", "o", "t", "e", "s">> \o PdfSuffix,
                  FileName(D2, <<"w">>, DateTime)}] }

(***************************************************************************)
(* DocumentTypeMatcher and CaseFilter.                                     *)
(***************************************************************************)
\* faulty variant: containment tested the wrong way round (reported-in-wanted)
MatchesDocumentType_Reversed(match_mode, document_type, allowed_types) ==
    IF match_mode = "exact"
    THEN \E i \in DOMAIN allowed_types : Lower(allowed_types[i]) = Lower(document_type)
    ELSE \E i \in DOMAIN allowed_types :
             IsSubstring(Lower(document_type), Lower(allowed_types[i]))

\* _matches_document_type
MatchesDocumentType(match_mode, document_type, allowed_types) ==
    IF match_mode = "exact"
    THEN \E i \in DOMAIN allowed_types : Lower(allowed_types[i]) = Lower(document_type)
    ELSE \E i \in DOMAIN allowed_types :
             IsSubstring(Lower(allowed_types[i]), Lower(document_type))

\* the dict filter_court_orders appends for a docket entry
Candidate(docket_number, entry) ==
    [ docket_number   |-> docket_number,
      docket_entry_id |-> entry.docketEntryId,
      document_type   |-> entry.documentType,
      filed_date      |-> entry.filingDate,
      \* not a key of the dict: kept to tell which entry a download is for
      sealed          |-> entry.isSealed ]

\* the test of line 231
Wanted(cfg, entry) ==
    /\ MatchesDocumentType(cfg.match_mode, entry.documentType, cfg.document_types)
    /\ ~entry.isSealed
    /\ entry.docketEntryId # NoId

\* faulty variant: the sealed flag is not looked at
FilterCourtOrders_KeepSealed(cfg, docket_number, entries) ==
    LET RECURSIVE walk(_)
        walk(es) ==
            IF es = <<>> THEN <<>>
            ELSE (IF /\ MatchesDocumentType(cfg.match_mode, Head(es).documentType,
                                            cfg.document_types)
                     /\ Head(es).docketEntryId # NoId
                  THEN <<Candidate(docket_number, Head(es))>> ELSE <<>>)
                 \o walk(Tail(es))
    IN  walk(entries)

\* faulty variant: each kept entry is put in front of the ones kept before it
FilterCourtOrders_NewestFirst(cfg, docket_number, entries) ==
    LET RECURSIVE walk(_)
        walk(es) ==
            IF es = <<>> THEN <<>>
            ELSE walk(Tail(es)) \o
                 (IF Wanted(cfg, Head(es))
                  THEN <<Candidate(docket_number, Head(es))>> ELSE <<>>)
    IN  walk(entries)

\* filter_court_orders
FilterCourtOrders(cfg, docket_number, entries) ==
    LET RECURSIVE walk(_)
        walk(es) ==
            IF es = <<>> THEN <<>>
            ELSE (IF Wanted(cfg, Head(es))
                  THEN <<Candidate(docket_number, Head(es))>> ELSE <<>>)
                 \o walk(Tail(es))
    IN  walk(entries)

(***************************************************************************)
(* QuotaTracker: needs_type and all_minimums_met, closures of              *)
(* extract_orders over min_per_type, document_types and type_counts.       *)
(***************************************************************************)
\* faulty variant: the minimum is never looked at
NeedsType_Always(cfg, counts, doc_type) == TRUE

\* needs_type
NeedsType(cfg, counts, doc_type) ==
    IF cfg.min_per_type <= 0 THEN TRUE
    ELSE LET hits == {i \in DOMAIN cfg.document_types :
                         Lower(cfg.document_types[i]) = Lower(doc_type)}
         IN  IF hits = {} THEN TRUE
             ELSE LET first == CHOOSE i \in hits : \A j \in hits : i <= j
                  IN  counts[cfg.document_types[first]] < cfg.min_per_type

\* all_minimums_met
AllMinimumsMet(cfg, counts) ==
    IF cfg.min_per_type <= 0 THEN TRUE
    ELSE \A t \in DOMAIN counts : counts[t] >= cfg.min_per_type

\* faulty variant: no break, every configured type equal to the reported type counts
CountDownloaded_AllMatches(cfg, counts, doc_type) ==
    [t \in DOMAIN counts |->
        IF \E i \in DOMAIN cfg.document_types :
               cfg.document_types[i] = t /\ Lower(t) = Lower(doc_type)
        THEN counts[t] + 1 ELSE counts[t]]

\* lines 418-421: the count of the first configured type equal to the reported type
CountDownloaded(cfg, counts, doc_type) ==
    LET hits == {i \in DOMAIN cfg.document_types :
                     Lower(cfg.document_types[i]) = Lower(doc_type)}
    IN  IF hits = {} THEN counts
        ELSE LET first == CHOOSE i \in hits : \A j \in hits : i <= j
             IN  [counts EXCEPT ![cfg.document_types[first]] = @ + 1]

(***************************************************************************)
(* RateLimiter and ApiClient.  m is the extractor object with the disk and *)
(* the network it acts on:                                                 *)
(*   stats, existing_docs   the fields of DAWSONExtractor                  *)
(*   pdf_files, meta_files  the names of the files in the output tree      *)
(*   calls                  the outbound network calls issued, in order    *)
(*   armed                  time.sleep has returned and no call was issued *)
(*                          since                                          *)
(*   unwaited               the number of calls issued while not armed     *)
(*   failed                 the positions in calls of the _make_request    *)
(*                          calls that raised (and returned None)          *)
(***************************************************************************)
\* _rate_limit
RateLimit(m) == [m EXCEPT !.armed = TRUE]

\* session.get: one outbound call
SessionGet(m, call) ==
    [m EXCEPT !.calls = Append(@, call),
              !.unwaited = IF m.armed THEN @ ELSE @ + 1,
              !.armed = FALSE]

\* faulty variant: the request is sent without the wait
MakeRequest_NoWait(m, call, outcome) ==
    LET m1 == [m EXCEPT !.stats.api_calls = @ + 1]
        m3 == SessionGet(m1, call)
    IN  IF outcome = "fail"
        THEN [m |-> [m3 EXCEPT !.stats.errors = @ + 1,
                               !.failed = @ \cup {Len(m3.calls)}],
              response |-> "None"]
        ELSE [m |-> m3, response |-> outcome]

\* faulty variant: a failure is logged but not counted
MakeRequest_NoErrorCount(m, call, outcome) ==
    LET m1 == [m EXCEPT !.stats.api_calls = @ + 1]
        m3 == SessionGet(RateLimit(m1), call)
    IN  IF outcome = "fail"
        THEN [m |-> [m3 EXCEPT !.failed = @ \cup {Len(m3.calls)}], response |-> "None"]
        ELSE [m |-> m3, response |-> outcome]

\* _make_request.  outcome "fail": HTTPError or RequestException, the result is
\* None; any other outcome names the JSON body that came back ("ok": the body
\* the endpoint documents, "no_url": a body without the 'url' field).
MakeRequest(m, call, outcome) ==
    LET m1 == [m EXCEPT !.stats.api_calls = @ + 1]
        m2 == RateLimit(m1)
        m3 == SessionGet(m2, call)
    IN  IF outcome = "fail"
        THEN [m |-> [m3 EXCEPT !.stats.errors = @ + 1,
                               !.failed = @ \cup {Len(m3.calls)}],
              response |-> "None"]
        ELSE [m |-> m3, response |-> outcome]

\* `not data` for the result of _make_request
Falsy(response) == response = "None"

RequestOutcomes == {"fail", "ok"}

(***************************************************************************)
(* SearchAggregator: search_orders for one keyword.                        *)
(***************************************************************************)
SearchOrders(cfg, api, m, keyword, outcome) ==
    LET r == MakeRequest(m, <<"search", keyword>>, outcome)
        results == api.search[keyword]
        docket_numbers ==
            {results[i].docketNumber : i \in
                {j \in DOMAIN results :
                    /\ results[j].docketNumber # <<>>
                    /\ MatchesDocumentType(cfg.match_mode, results[j].documentType,
                                           cfg.document_types)}}
    IN  [m |-> r.m,
         dockets |-> IF Falsy(r.response) THEN <<>> ELSE SetToSeq(docket_numbers)]

(***************************************************************************)
(* Download step: download_document.  outcome names what the network and   *)
(* the file system do when they are reached:                               *)
(*   url_fail     the download-URL request raises (result None)            *)
(*   url_missing  the download-URL response is a body without 'url'        *)
(*   fetch_fail   the binary GET raises, or open(filepath, 'wb') does: no  *)
(*                file is created                                          *)
(*   write_fail   f.write raises: the file exists, incomplete              *)
(*   meta_fail    opening or writing the .json file raises                 *)
(*   ok           nothing raises                                           *)
(***************************************************************************)
DownloadOutcomes ==
    {"url_fail", "url_missing", "fetch_fail", "write_fail", "meta_fail", "ok"}

UrlOutcome(outcome) ==
    CASE outcome = "url_fail"    -> "fail"
      [] outcome = "url_missing" -> "no_url"
      [] OTHER                   -> "ok"

\* faulty variant: no check of the existing index (lines 256-258 dropped)
DownloadDocument_NoDedup(m, order, outcome) ==
    LET docket_number == order.docket_number
        document_id   == order.docket_entry_id
        r == MakeRequest(m, <<"url", docket_number, document_id>>, UrlOutcome(outcome))
        filename == FileName(docket_number, document_id, order.filed_date)
        m4 == SessionGet(RateLimit(r.m), <<"pdf", docket_number, document_id>>)
        failed == [m4 EXCEPT !.stats.errors = @ + 1]
        m5 == [m4 EXCEPT !.pdf_files = @ \cup {filename},
                         !.stats.orders_downloaded = @ + 1,
                         !.existing_docs = @ \cup {document_id}]
    IN  IF Falsy(r.response) \/ r.response = "no_url"
        THEN [m |-> r.m, result |-> "error"]
        ELSE CASE outcome = "fetch_fail" ->
                    [m |-> failed, result |-> "error"]
               [] outcome = "write_fail" ->
                    [m |-> [failed EXCEPT !.pdf_files = @ \cup {filename}],
                     result |-> "error"]
               [] outcome = "meta_fail" ->
                    [m |-> [m5 EXCEPT !.stats.errors = @ + 1], result |-> "error"]
               [] OTHER ->
                    [m |-> [m5 EXCEPT !.meta_files = @ \cup {filename}],
                     result |-> "downloaded"]

\* faulty variant: the id is not added to existing_docs after a download (line 290 dropped)
DownloadDocument_NoAdd(m, order, outcome) ==
    LET docket_number == order.docket_number
        document_id   == order.docket_entry_id
        r == MakeRequest(m, <<"url", docket_number, document_id>>, UrlOutcome(outcome))
        filename == FileName(docket_number, document_id, order.filed_date)
        m4 == SessionGet(RateLimit(r.m), <<"pdf", docket_number, document_id>>)
        failed == [m4 EXCEPT !.stats.errors = @ + 1]
        m5 == [m4 EXCEPT !.pdf_files = @ \cup {filename},
                         !.stats.orders_downloaded = @ + 1]
    IN  IF document_id \in m.existing_docs
        THEN [m |-> [m EXCEPT !.stats.orders_skipped = @ + 1], result |-> "skipped"]
        ELSE IF Falsy(r.response) \/ r.response = "no_url"
        THEN [m |-> r.m, result |-> "error"]
        ELSE CASE outcome = "fetch_fail" ->
                    [m |-> failed, result |-> "error"]
               [] outcome = "write_fail" ->
                    [m |-> [failed EXCEPT !.pdf_files = @ \cup {filename}],
                     result |-> "error"]
               [] outcome = "meta_fail" ->
                    [m |-> [m5 EXCEPT !.stats.errors = @ + 1], result |-> "error"]
               [] OTHER ->
                    [m |-> [m5 EXCEPT !.meta_files = @ \cup {filename}],
                     result |-> "downloaded"]

\* faulty variant: the binary GET is sent without the wait (line 278 dropped)
DownloadDocument_NoWait(m, order, outcome) ==
    LET docket_number == order.docket_number
        document_id   == order.docket_entry_id
        r == MakeRequest(m, <<"url", docket_number, document_id>>, UrlOutcome(outcome))
        filename == FileName(docket_number, document_id, order.filed_date)
        m4 == SessionGet(r.m, <<"pdf", docket_number, document_id>>)
        failed == [m4 EXCEPT !.stats.errors = @ + 1]
        m5 == [m4 EXCEPT !.pdf_files = @ \cup {filename},
                         !.stats.orders_downloaded = @ + 1,
                         !.existing_docs = @ \cup {document_id}]
    IN  IF document_id \in m.existing_docs
        THEN [m |-> [m EXCEPT !.stats.orders_skipped = @ + 1], result |-> "skipped"]
        ELSE IF Falsy(r.response) \/ r.response = "no_url"
        THEN [m |-> r.m, result |-> "error"]
        ELSE CASE outcome = "fetch_fail" ->
                    [m |-> failed, result |-> "error"]
               [] outcome = "write_fail" ->
                    [m |-> [failed EXCEPT !.pdf_files = @ \cup {filename}],
                     result |-> "error"]
               [] outcome = "meta_fail" ->
                    [m |-> [m5 EXCEPT !.stats.errors = @ + 1], result |-> "error"]
               [] OTHER ->
                    [m |-> [m5 EXCEPT !.meta_files = @ \cup {filename}],
                     result |-> "downloaded"]

\* faulty variant: a document found in the index is counted as downloaded as well
DownloadDocument_SkipCountsDownload(m, order, outcome) ==
    LET docket_number == order.docket_number
        document_id   == order.docket_entry_id
        r == MakeRequest(m, <<"url", docket_number, document_id>>, UrlOutcome(outcome))
        filename == FileName(docket_number, document_id, order.filed_date)
        m4 == SessionGet(RateLimit(r.m), <<"pdf", docket_number, document_id>>)
        failed == [m4 EXCEPT !.stats.errors = @ + 1]
        m5 == [m4 EXCEPT !.pdf_files = @ \cup {filename},
                         !.stats.orders_downloaded = @ + 1,
                         !.existing_docs = @ \cup {document_id}]
    IN  IF document_id \in m.existing_docs
        THEN [m |-> [m EXCEPT !.stats.orders_skipped = @ + 1,
                              !.stats.orders_downloaded = @ + 1],
              result |-> "skipped"]
        ELSE IF Falsy(r.response) \/ r.response = "no_url"
        THEN [m |-> r.m, result |-> "error"]
        ELSE CASE outcome = "fetch_fail" ->
                    [m |-> failed, result |-> "error"]
               [] outcome = "write_fail" ->
                    [m |-> [failed EXCEPT !.pdf_files = @ \cup {filename}],
                     result |-> "error"]
               [] outcome = "meta_fail" ->
                    [m |-> [m5 EXCEPT !.stats.errors = @ + 1], result |-> "error"]
               [] OTHER ->
                    [m |-> [m5 EXCEPT !.meta_files = @ \cup {filename}],
                     result |-> "downloaded"]

\* download_document(docket_number, document_id, metadata), metadata being the
\* candidate `order` that also supplies the first two arguments (lines 409-413)
DownloadDocument(m, order, outcome) ==
    LET docket_number == order.docket_number
        document_id   == order.docket_entry_id
        \* lines 261-262
        r == MakeRequest(m, <<"url", docket_number, document_id>>, UrlOutcome(outcome))
        \* lines 271-274
        filename == FileName(docket_number, document_id, order.filed_date)
        \* lines 278-279
        m4 == SessionGet(RateLimit(r.m), <<"pdf", docket_number, document_id>>)
        \* lines 299-302
        failed == [m4 EXCEPT !.stats.errors = @ + 1]
        \* lines 283-290
        m5 == [m4 EXCEPT !.pdf_files = @ \cup {filename},
                         !.stats.orders_downloaded = @ + 1,
                         !.existing_docs = @ \cup {document_id}]
    IN  IF document_id \in m.existing_docs
        THEN [m |-> [m EXCEPT !.stats.orders_skipped = @ + 1], result |-> "skipped"]
        ELSE IF Falsy(r.response) \/ r.response = "no_url"
        THEN [m |-> r.m, result |-> "error"]
        ELSE CASE outcome = "fetch_fail" ->
                    [m |-> failed, result |-> "error"]
               [] outcome = "write_fail" ->
                    [m |-> [failed EXCEPT !.pdf_files = @ \cup {filename}],
                     result |-> "error"]
               [] outcome = "meta_fail" ->
                    [m |-> [m5 EXCEPT !.stats.errors = @ + 1], result |-> "error"]
               [] OTHER ->
                    [m |-> [m5 EXCEPT !.meta_files = @ \cup {filename}],
                     result |-> "downloaded"]

(***************************************************************************)
(* State.                                                                  *)
(*   cfg, api      the configuration and what the API serves (never change)*)
(*   m             the extractor object, the disk and the network          *)
(*   pc            where extract_orders stands                             *)
(*   existing_count .. orders_collected   the locals of extract_orders     *)
(*   summaries     what _print_summary printed in this run, in order       *)
(*   results       the download_document calls of this run with their      *)
(*                 results, in order                                       *)
(*   existing_at_start   existing_docs as __init__ left it                 *)
(*   run           1 for the first process, 2 for a second process started *)
(*                 on the same output directory and configuration          *)
(*   faults        the calls and writes that have failed so far            *)
(*   call, ret     a helper applied on its own, outside a run: its         *)
(*                 arguments and its result (PureSpec below)               *)
(***************************************************************************)
VARIABLES cfg, api, m, pc, existing_count, needed, type_counts, kw_index,
          all_dockets, unique_dockets, docket_index, documents, doc_index,
          orders_collected, summaries, results, existing_at_start, run, faults,
          call, ret

vars == <<cfg, api, m, pc, existing_count, needed, type_counts, kw_index,
          all_dockets, unique_dockets, docket_index, documents, doc_index,
          orders_collected, summaries, results, existing_at_start, run, faults,
          call, ret>>

locals == <<existing_count, needed, type_counts, kw_index, all_dockets,
            unique_dockets, docket_index, documents, doc_index, orders_collected>>

\* self.stats of __init__ (start_time left out)
NewStats == [orders_downloaded |-> 0, orders_skipped |-> 0, api_calls |-> 0, errors |-> 0]

\* __init__ on an output tree that holds the given files
Construct(pdf_files, meta_files) ==
    [ stats         |-> NewStats,
      existing_docs |-> ScanExistingDocuments(pdf_files),
      pdf_files     |-> pdf_files,
      meta_files    |-> meta_files,
      calls         |-> <<>>,
      armed         |-> FALSE,
      unwaited      |-> 0,
      failed        |-> {} ]

\* the numbers _print_summary prints
PrintSummary(mm) ==
    [ downloaded |-> mm.stats.orders_downloaded,
      skipped    |-> mm.stats.orders_skipped,
      total      |-> Cardinality(mm.existing_docs),
      api_calls  |-> mm.stats.api_calls,
      errors     |-> mm.stats.errors ]

\* the locals of extract_orders before they are assigned
LocalsUnassigned ==
    /\ existing_count = 0 /\ needed = 0 /\ type_counts = <<>> /\ kw_index = 0
    /\ all_dockets = <<>> /\ unique_dockets = <<>> /\ docket_index = 0
    /\ documents = <<>> /\ doc_index = 0 /\ orders_collected = 0

\* the outcomes the environment may still choose: any, while fewer than
\* MaxFaults calls or writes have failed; then only success
Allowed(outcomes) == IF faults < MaxFaults THEN outcomes ELSE {"ok"}

Init ==
    /\ \E s \in Scenarios, n \in 0..MaxTarget, k \in 0..MaxMinPerType :
          /\ cfg = [ num_orders      |-> n,
                     min_per_type    |-> k,
                     match_mode      |-> s.match_mode,
                     document_types  |-> s.world.document_types,
                     search_keywords |-> s.world.search_keywords ]
          /\ api = [search |-> s.world.search, cases |-> s.world.cases]
          /\ m = Construct(s.files, {})
    /\ pc = "start"
    /\ LocalsUnassigned
    /\ summaries = <<>>
    /\ results = <<>>
    /\ existing_at_start = m.existing_docs
    /\ run = 1
    /\ faults = 0
    /\ call = [fn |-> "none"]
    /\ ret = <<>>

\* faulty variant: no early return when nothing is needed (lines 329-332 dropped)
ExtractStart_NoShortCut ==
    /\ pc = "start"
    /\ existing_count' = Cardinality(m.existing_docs)
    /\ needed' = IF cfg.num_orders - existing_count' > 0
                 THEN cfg.num_orders - existing_count' ELSE 0
    /\ type_counts' = [t \in Range(cfg.document_types) |-> 0]
    /\ pc' = "search" /\ kw_index' = 1 /\ all_dockets' = <<>>
    /\ UNCHANGED <<summaries, cfg, api, m, unique_dockets, docket_index, documents,
                   doc_index, orders_collected, results, existing_at_start, run,
                   faults>>
    /\ UNCHANGED <<call, ret>>

\* extract_orders, lines 311-336: up to the first search, or the summary and
\* the return when nothing is needed
ExtractStart ==
    /\ pc = "start"
    /\ existing_count' = Cardinality(m.existing_docs)
    /\ needed' = IF cfg.num_orders - existing_count' > 0
                 THEN cfg.num_orders - existing_count' ELSE 0
    /\ type_counts' = [t \in Range(cfg.document_types) |-> 0]
    /\ IF needed' = 0
       THEN /\ summaries' = Append(summaries, PrintSummary(m))
            /\ pc' = "done"
            /\ UNCHANGED <<kw_index, all_dockets>>
       ELSE /\ pc' = "search" /\ kw_index' = 1 /\ all_dockets' = <<>>
            /\ UNCHANGED summaries
    /\ UNCHANGED <<cfg, api, m, unique_dockets, docket_index, documents, doc_index,
                   orders_collected, results, existing_at_start, run, faults>>
    /\ UNCHANGED <<call, ret>>

\* faulty variant: a failed search ends the search loop
SearchKeyword_StopOnFailure ==
    /\ pc = "search"
    /\ kw_index <= Len(cfg.search_keywords)
    /\ \E outcome \in Allowed(RequestOutcomes) :
          LET r == SearchOrders(cfg, api, m, cfg.search_keywords[kw_index], outcome)
          IN  /\ m' = r.m
              /\ all_dockets' = all_dockets \o r.dockets
              /\ faults' = IF outcome = "ok" THEN faults ELSE faults + 1
              /\ kw_index' = IF outcome = "ok" THEN kw_index + 1
                             ELSE Len(cfg.search_keywords) + 1
    /\ UNCHANGED <<cfg, api, pc, existing_count, needed, type_counts, unique_dockets,
                   docket_index, documents, doc_index, orders_collected, summaries,
                   results, existing_at_start, run>>
    /\ UNCHANGED <<call, ret>>

\* one pass of the loop of lines 338-340
SearchKeyword ==
    /\ pc = "search"
    /\ kw_index <= Len(cfg.search_keywords)
    /\ \E outcome \in Allowed(RequestOutcomes) :
          LET r == SearchOrders(cfg, api, m, cfg.search_keywords[kw_index], outcome)
          IN  /\ m' = r.m
              /\ all_dockets' = all_dockets \o r.dockets
              /\ faults' = IF outcome = "ok" THEN faults ELSE faults + 1
    /\ kw_index' = kw_index + 1
    /\ UNCHANGED <<cfg, api, pc, existing_count, needed, type_counts, unique_dockets,
                   docket_index, documents, doc_index, orders_collected, summaries,
                   results, existing_at_start, run>>
    /\ UNCHANGED <<call, ret>>

\* lines 343-356: the unique dockets, the return when there is none, the shuffle
ShuffleDockets ==
    /\ pc = "search"
    /\ kw_index > Len(cfg.search_keywords)
    /\ IF Range(all_dockets) = {}
       THEN /\ pc' = "done"
            /\ UNCHANGED <<unique_dockets, orders_collected, docket_index>>
       ELSE /\ unique_dockets' \in Orders(Range(all_dockets))
            /\ orders_collected' = 0
            /\ docket_index' = 0
            /\ pc' = "loop"
    /\ UNCHANGED <<cfg, api, m, existing_count, needed, type_counts, kw_index,
                   all_dockets, documents, doc_index, summaries, results,
                   existing_at_start, run, faults>>
    /\ UNCHANGED <<call, ret>>

\* faulty variant: the loop is left before the last docket is taken
LoopCondition_SkipsLast ==
    orders_collected < needed /\ docket_index < Len(unique_dockets) - 1

\* faulty variant: the loop goes on while dockets remain, target reached or not
LoopCondition_IgnoresTarget == docket_index < Len(unique_dockets)

\* the condition of the while loop, line 374
LoopCondition == orders_collected < needed /\ docket_index < Len(unique_dockets)

\* faulty variant: a docket whose fetch failed is taken again
ProcessDocket_RetryOnFailure ==
    /\ pc = "loop"
    /\ LoopCondition
    /\ LET docket == unique_dockets[docket_index + 1]
       IN \E outcome \in Allowed(RequestOutcomes) :
            LET r == MakeRequest(m, <<"case", docket>>, outcome)
                found == FilterCourtOrders(cfg, docket, api.cases[docket])
                narrowed ==
                    IF ~AllMinimumsMet(cfg, type_counts)
                    THEN SelectSeq(found,
                            LAMBDA doc : NeedsType(cfg, type_counts, doc.document_type))
                    ELSE found
            IN  /\ m' = r.m
                /\ faults' = IF outcome = "ok" THEN faults ELSE faults + 1
                /\ docket_index' = IF Falsy(r.response) THEN docket_index
                                   ELSE docket_index + 1
                /\ IF Falsy(r.response) \/ narrowed = <<>>
                   THEN /\ pc' = "loop"
                        /\ UNCHANGED <<documents, doc_index>>
                   ELSE /\ pc' = "docs"
                        /\ documents' = narrowed
                        /\ doc_index' = 1
    /\ UNCHANGED <<cfg, api, existing_count, needed, type_counts, kw_index, all_dockets,
                   unique_dockets, orders_collected, summaries, results,
                   existing_at_start, run>>
    /\ UNCHANGED <<call, ret>>

\* lines 374-398: one docket is taken, fetched, filtered and narrowed
ProcessDocket ==
    /\ pc = "loop"
    /\ LoopCondition
    /\ docket_index' = docket_index + 1
    /\ LET docket == unique_dockets[docket_index + 1]
       IN \E outcome \in Allowed(RequestOutcomes) :
            LET r == MakeRequest(m, <<"case", docket>>, outcome)
                found == FilterCourtOrders(cfg, docket, api.cases[docket])
                narrowed ==
                    IF ~AllMinimumsMet(cfg, type_counts)
                    THEN SelectSeq(found,
                            LAMBDA doc : NeedsType(cfg, type_counts, doc.document_type))
                    ELSE found
            IN  /\ m' = r.m
                /\ faults' = IF outcome = "ok" THEN faults ELSE faults + 1
                /\ IF Falsy(r.response) \/ narrowed = <<>>
                   THEN /\ pc' = "loop"
                        /\ UNCHANGED <<documents, doc_index>>
                   ELSE /\ pc' = "docs"
                        /\ documents' = narrowed
                        /\ doc_index' = 1
    /\ UNCHANGED <<cfg, api, existing_count, needed, type_counts, kw_index, all_dockets,
                   unique_dockets, orders_collected, summaries, results,
                   existing_at_start, run>>
    /\ UNCHANGED <<call, ret>>

\* the for loop is left, by break or after its last document (documents and
\* doc_index are not read again before they are assigned)
LeaveDocket ==
    /\ pc' = "loop" /\ documents' = <<>> /\ doc_index' = 0

\* `continue`, or the end of the loop body
NextDocument ==
    IF doc_index = Len(documents)
    THEN LeaveDocket
    ELSE pc' = "docs" /\ doc_index' = doc_index + 1 /\ UNCHANGED documents

\* lines 409-424: the download of one document and the bookkeeping after it
Attempt(order) ==
    \E outcome \in Allowed(DownloadOutcomes) :
        LET r == DownloadDocument(m, order, outcome)
        IN  /\ m' = r.m
            /\ results' = Append(results, [order |-> order, result |-> r.result])
            /\ faults' = IF r.result = "error" THEN faults + 1 ELSE faults
            /\ IF r.result = "downloaded"
               THEN /\ orders_collected' = orders_collected + 1
                    /\ type_counts' =
                          CountDownloaded(cfg, type_counts, order.document_type)
               ELSE UNCHANGED <<orders_collected, type_counts>>
            /\ NextDocument

\* faulty variant: no test of orders_collected inside the for loop (lines 402-403 dropped)
DownloadNext_NoBreak ==
    /\ pc = "docs"
    /\ LET order == documents[doc_index]
       IN IF /\ ~AllMinimumsMet(cfg, type_counts)
             /\ ~NeedsType(cfg, type_counts, order.document_type)
          THEN /\ NextDocument
               /\ UNCHANGED <<m, orders_collected, type_counts, results, faults>>
          ELSE Attempt(order)
    /\ UNCHANGED <<cfg, api, existing_count, needed, kw_index, all_dockets,
                   unique_dockets, docket_index, summaries, existing_at_start, run>>
    /\ UNCHANGED <<call, ret>>

\* faulty variant: the minimums are looked at once per docket only (lines 405-407 dropped)
DownloadNext_NoQuotaCheck ==
    /\ pc = "docs"
    /\ LET order == documents[doc_index]
       IN IF orders_collected >= needed
          THEN /\ LeaveDocket
               /\ UNCHANGED <<m, orders_collected, type_counts, results, faults>>
          ELSE Attempt(order)
    /\ UNCHANGED <<cfg, api, existing_count, needed, kw_index, all_dockets,
                   unique_dockets, docket_index, summaries, existing_at_start, run>>
    /\ UNCHANGED <<call, ret>>

\* lines 401-424: one pass of the for loop over the documents of the docket
DownloadNext ==
    /\ pc = "docs"
    /\ LET order == documents[doc_index]
       IN IF orders_collected >= needed
          THEN /\ LeaveDocket
               /\ UNCHANGED <<m, orders_collected, type_counts, results, faults>>
          ELSE IF /\ ~AllMinimumsMet(cfg, type_counts)
                  /\ ~NeedsType(cfg, type_counts, order.document_type)
          THEN /\ NextDocument
               /\ UNCHANGED <<m, orders_collected, type_counts, results, faults>>
          ELSE Attempt(order)
    /\ UNCHANGED <<cfg, api, existing_count, needed, kw_index, all_dockets,
                   unique_dockets, docket_index, summaries, existing_at_start, run>>
    /\ UNCHANGED <<call, ret>>

\* lines 374 and 426-427: the while loop ends and the summary is printed
FinishRun ==
    /\ pc = "loop"
    /\ ~LoopCondition
    /\ summaries' = Append(summaries, PrintSummary(m))
    /\ pc' = "done"
    /\ UNCHANGED <<cfg, api, m, locals, results, existing_at_start, run, faults>>
    /\ UNCHANGED <<call, ret>>

\* the first run ended having met its target
TargetMet == pc = "done" /\ orders_collected >= needed

\* main() a second time with the same configuration on the same output
\* directory, after a first run that met its target: a new DAWSONExtractor,
\* whose __init__ scans the files the first run left
NewProcess ==
    /\ run = 1
    /\ TargetMet
    /\ run' = 2
    /\ m' = Construct(m.pdf_files, m.meta_files)
    /\ existing_at_start' = m'.existing_docs
    /\ pc' = "start"
    /\ existing_count' = 0 /\ needed' = 0 /\ type_counts' = <<>> /\ kw_index' = 0
    /\ all_dockets' = <<>> /\ unique_dockets' = <<>> /\ docket_index' = 0
    /\ documents' = <<>> /\ doc_index' = 0 /\ orders_collected' = 0
    /\ summaries' = <<>>
    /\ results' = <<>>
    /\ UNCHANGED <<cfg, api, faults>>
    /\ UNCHANGED <<call, ret>>

Next ==
    \/ ExtractStart
    \/ SearchKeyword
    \/ ShuffleDockets
    \/ ProcessDocket
    \/ DownloadNext
    \/ FinishRun
    \/ NewProcess

Spec == Init /\ [][Next]_vars

\* the process is one thread that runs on while it has a step to take: every
\* network call and every file write returns, with a result or an error
LiveSpec == Init /\ [][Next]_vars /\ WF_vars(Next)

(***************************************************************************)
(* The helper methods called on their own: `call` holds the method and its  *)
(* arguments, `ret` the returned value once the call has returned.  The     *)
(* extractor is freshly constructed and extract_orders is not running.      *)
(***************************************************************************)
\* all strings of at most n characters over an alphabet
RECURSIVE Strings(_, _)
Strings(alphabet, n) ==
    IF n = 0 THEN {<<>>}
    ELSE LET shorter == Strings(alphabet, n - 1)
         IN  shorter \cup {Append(s, c) : s \in shorter, c \in alphabet}

\* all lists of at most n elements of S
RECURSIVE Lists(_, _)
Lists(S, n) ==
    IF n = 0 THEN {<<>>}
    ELSE LET shorter == Lists(S, n - 1)
         IN  shorter \cup {Append(s, x) : s \in shorter, x \in S}

\* docket entries: with and without id, of wanted and unwanted type, sealed or not
PureEntries ==
    {Entry(id, type, sealed, DatePlain) :
        id \in {NoId, <<"p">>}, type \in {TypeA, TypeLowA, TypeC}, sealed \in BOOLEAN}

\* document types, reported and wanted
PureTypes == Strings({"A", "a", "B"}, MaxTypeLen)

PureDockets == {D1, D2, D3, <<"1", "-", "2">>}

PureIds == {<<"p">>, <<"a", "-", "b">>}

PureDates == {DatePlain, DateTime, <<"2", "-", "1">>}

\* *.pdf names whose stems have one, two, three and four segments
PureFiles ==
    { <<"n">> \o PdfSuffix,
      <<"1", "_", "p">> \o PdfSuffix,
      <<"1", "_", "q", "_", "8">> \o PdfSuffix,
      <<"2", "_", "r", "_", "8">> \o PdfSuffix,
      <<"1", "_", "s", "_", "8", "_", "x">> \o PdfSuffix }

PureCalls ==
    {[fn |-> "filter_court_orders", docket_number |-> D1, entries |-> es] :
        es \in Lists(PureEntries, MaxEntries)}
    \cup
    {[fn |-> "_matches_document_type", document_type |-> t, allowed_types |-> ts] :
        t \in PureTypes, ts \in Lists(PureTypes, 2)}
    \cup
    {[fn |-> "download_then_scan", docket_number |-> d, document_id |-> id,
      filed_date |-> date] :
        d \in PureDockets, id \in PureIds, date \in PureDates}
    \cup
    {[fn |-> "_scan_existing_documents", pdf_files |-> fs] : fs \in SUBSET PureFiles}

InitPure ==
    /\ \E mode \in {"exact", "substring", "fuzzy"} :
          cfg = [ num_orders      |-> 0,
                  min_per_type    |-> 0,
                  match_mode      |-> mode,
                  document_types  |-> <<TypeA, TypeB>>,
                  search_keywords |-> <<>> ]
    /\ api = [search |-> <<>>, cases |-> <<>>]
    /\ m = Construct({}, {})
    /\ pc = "idle"
    /\ LocalsUnassigned
    /\ summaries = <<>>
    /\ results = <<>>
    /\ existing_at_start = {}
    /\ run = 1
    /\ faults = 0
    /\ call \in PureCalls
    /\ ret = <<>>

Returns(value) ==
    /\ ret = <<>>
    /\ ret' = <<value>>
    /\ UNCHANGED <<cfg, api, m, pc, locals, summaries, results, existing_at_start,
                   run, faults, call>>

CallFilterCourtOrders ==
    /\ call.fn = "filter_court_orders"
    /\ Returns(FilterCourtOrders(cfg, call.docket_number, call.entries))

CallMatchesDocumentType ==
    /\ call.fn = "_matches_document_type"
    /\ Returns(MatchesDocumentType(cfg.match_mode, call.document_type,
                                   call.allowed_types))

\* the file download_document writes, scanned by the next construction
CallDownloadThenScan ==
    /\ call.fn = "download_then_scan"
    /\ Returns(ScanExistingDocuments(
                   {FileName(call.docket_number, call.document_id, call.filed_date)}))

CallScanExistingDocuments ==
    /\ call.fn = "_scan_existing_documents"
    /\ Returns(ScanExistingDocuments(call.pdf_files))

NextPure ==
    \/ CallFilterCourtOrders
    \/ CallMatchesDocumentType
    \/ CallDownloadThenScan
    \/ CallScanExistingDocuments

PureSpec == InitPure /\ [][NextPure]_vars

(***************************************************************************)
(* Properties.                                                             *)
(***************************************************************************)
\* the positions in m.calls of the calls of one kind
CallsOfKind(kind) == {i \in DOMAIN m.calls : m.calls[i][1] = kind}

\* this step made one download_document call
Attempted == Len(results') = Len(results) + 1

\* the download_document call this step made
LastAttempt == results'[Len(results')]

\* C1: when the existing index holds at least num_orders ids at the start of
\* extract_orders, the run goes from the start straight to the end, having
\* printed the summary once and issued no network call of any kind.
C1_SatisfiedRunIsNoOp ==
    (pc # "start" /\ existing_count >= cfg.num_orders)
        => /\ pc = "done"
           /\ needed = 0
           /\ m.calls = <<>>
           /\ m.stats.api_calls = 0
           /\ Len(summaries) = 1

\* a run with a target above zero that the files on disk satisfy already
C1_Witness ==
    /\ pc = "done" /\ run = 1 /\ cfg.num_orders > 0
    /\ existing_count >= cfg.num_orders
    /\ summaries # <<>>

\* C2: a second run with the same target on the output directory of a first
\* run that met the target issues no search and no download.
C2_SecondRunIdle ==
    run = 2 => (m.calls = <<>> /\ m.stats.orders_downloaded = 0)

\* C3: no download-URL request and no binary fetch is issued for an id that
\* the index held when the run started, and every download_document call for
\* such an id returns 'skipped'.
C3_ExistingNeverFetched ==
    /\ \A i \in CallsOfKind("url") \cup CallsOfKind("pdf") :
           m.calls[i][3] \notin existing_at_start
    /\ \A i \in DOMAIN results :
           results[i].order.docket_entry_id \in existing_at_start
               => results[i].result = "skipped"

\* two cases have listed an id of the index, and both calls were skipped
C3_Witness ==
    \E i, j \in DOMAIN results :
        /\ i < j
        /\ results[i].order.docket_entry_id \in existing_at_start
        /\ results[j].order.docket_entry_id = results[i].order.docket_entry_id
        /\ results[j].order.docket_number # results[i].order.docket_number
        /\ results[i].result = "skipped" /\ results[j].result = "skipped"

\* C4: within a run an id is 'downloaded' at most once: after a download of
\* an id succeeded the id is in existing_docs and every later call for it
\* returns 'skipped'.
C4_DownloadedAtMostOnce ==
    \A i \in DOMAIN results :
        results[i].result = "downloaded"
            => /\ results[i].order.docket_entry_id \in m.existing_docs
               /\ \A j \in DOMAIN results :
                      (j > i /\ results[j].order.docket_entry_id
                                    = results[i].order.docket_entry_id)
                          => results[j].result = "skipped"

\* an id was downloaded and came back as a candidate of a later case
C4_Witness ==
    \E i, j \in DOMAIN results :
        /\ i < j
        /\ results[i].result = "downloaded"
        /\ results[j].order.docket_entry_id = results[i].order.docket_entry_id
        /\ results[j].result = "skipped"

\* C5: every outbound call (search, case detail, download URL, binary fetch)
\* is issued right after a wait of the rate limiter that no other call used.
C5_WaitBeforeEveryCall == m.unwaited = 0 /\ ~m.armed

\* a run has issued calls of all four kinds
C5_Witness ==
    /\ CallsOfKind("search") # {} /\ CallsOfKind("case") # {}
    /\ CallsOfKind("url") # {} /\ CallsOfKind("pdf") # {}

\* a configured type equal to doc_type, case-insensitively, has reached the minimum
ReachedMinimum(doc_type) ==
    \E i \in DOMAIN cfg.document_types :
        /\ Lower(cfg.document_types[i]) = Lower(doc_type)
        /\ type_counts[cfg.document_types[i]] >= cfg.min_per_type

\* no type is above the minimum while another is below it
NoTypeAheadOfMinimums ==
    cfg.min_per_type > 0 =>
        \A t \in DOMAIN type_counts :
            type_counts[t] > cfg.min_per_type => AllMinimumsMet(cfg, type_counts)

\* C6: with min_per_type > 0, while some configured type is below the minimum
\* no download is attempted for a candidate whose type equals a configured
\* type that has reached the minimum, candidate by candidate; so no type gets
\* above the minimum while another is below it (never 4 A and 0 B for a
\* minimum of 2).
C6_QuotaFairness ==
    [][ /\ (Attempted /\ cfg.min_per_type > 0 /\ ~AllMinimumsMet(cfg, type_counts))
            => ~ReachedMinimum(LastAttempt.order.document_type)
        /\ NoTypeAheadOfMinimums' ]_vars

\* the stream A, A, A, B, A with minimum 2 and target 4: the first two A and
\* the B were downloaded, the third and the last A were passed over
C6_Witness ==
    /\ pc = "done" /\ run = 1 /\ faults = 0
    /\ cfg.min_per_type = 2 /\ cfg.num_orders = 4 /\ existing_count = 0
    /\ Len(api.cases[D1]) = 5
    /\ Len(results) = 3
    /\ \A i \in 1..3 : results[i].result = "downloaded"
    /\ results[1].order.document_type = TypeA
    /\ results[2].order.document_type = TypeA
    /\ results[3].order.document_type = TypeB
    /\ type_counts[TypeA] = 2 /\ type_counts[TypeB] = 1

\* C7: orders_collected never exceeds needed = max(0, num_orders -
\* existing_count), and when the while loop has ended, orders_collected >=
\* needed or every docket of the shuffled list has been taken.
C7_CollectedWithinNeeded ==
    pc # "start" =>
        /\ needed = (IF cfg.num_orders > existing_count
                     THEN cfg.num_orders - existing_count ELSE 0)
        /\ orders_collected <= needed
        /\ (pc = "done" /\ unique_dockets # <<>>)
               => (orders_collected >= needed \/ docket_index >= Len(unique_dockets))
        /\ (pc = "docs") => docket_index <= Len(unique_dockets)

\* the quota is reached while the docket still has candidates to offer
C7_Witness ==
    /\ pc = "docs" /\ needed > 0 /\ orders_collected = needed
    /\ doc_index < Len(documents)

\* C8: every run that has ended has printed the summary.
C8_SummaryOnEveryPath == pc = "done" => Len(summaries) = 1

\* C9: a download_document call that returns 'error' leaves the downloaded
\* counter and the existing index as they were.
C9_ErrorCountsNothing ==
    [][ (Attempted /\ LastAttempt.result = "error")
            => /\ m'.stats.orders_downloaded = m.stats.orders_downloaded
               /\ m'.existing_docs = m.existing_docs ]_vars

\* C10: every failed search, failed case-detail fetch and download attempt
\* that ends in 'error' raises the errors counter by at least one.
C10_EveryFailureCounted ==
    [][ faults' = faults + 1 => m'.stats.errors >= m.stats.errors + 1 ]_vars

\* the case identifiers a successful search for the keyword contributes
MatchingDockets(keyword) ==
    {h.docketNumber : h \in
        {x \in Range(api.search[keyword]) :
            MatchesDocumentType(cfg.match_mode, x.documentType, cfg.document_types)}}

\* no element occurs twice
DuplicateFree(s) == \A i, j \in DOMAIN s : s[i] = s[j] => i = j

\* C11: one search call per configured keyword, in the configured order; a
\* failed search contributes no case identifier and the later keywords are
\* still searched; the shuffled case list is the duplicate-free union, over
\* the searches that succeeded, of the identifiers of the hits whose type
\* matches the wanted types.
C11_SearchAggregation ==
    pc # "start" /\ needed > 0 =>
        LET searched == 1..(kw_index - 1)
        IN  /\ CallsOfKind("search") = searched
            /\ \A i \in searched : m.calls[i] = <<"search", cfg.search_keywords[i]>>
            /\ Range(all_dockets) =
                   UNION {MatchingDockets(cfg.search_keywords[i]) :
                              i \in searched \ m.failed}
            /\ pc # "search" => kw_index = Len(cfg.search_keywords) + 1
            /\ pc \in {"loop", "docs"} =>
                   /\ DuplicateFree(unique_dockets)
                   /\ Range(unique_dockets) = Range(all_dockets)

\* the first of two searches failed, the second was made and found cases that
\* both of its hits and a hit of the failed search name
C11_Witness ==
    /\ pc = "loop" /\ Len(cfg.search_keywords) = 2
    /\ 1 \in m.failed /\ 2 \notin m.failed
    /\ Len(unique_dockets) = 2

\* the case-detail requests of this run, in the order they were made
CaseCalls == SelectSeq(m.calls, LAMBDA c : c[1] = "case")

\* positions in the call log of the case-detail requests that failed
FailedCaseCalls == {i \in m.failed : m.calls[i][1] = "case"}

\* C12: the case-detail requests made so far are exactly the first
\* docket_index cases of the shuffled order, each fetched once; no download
\* request of either kind names a case whose fetch failed; and the loop is
\* left only when the target is collected or no case remains, so a failed
\* fetch ends neither.
C12_FailedCaseSkipped ==
    /\ pc \in {"loop", "docs"} =>
          /\ Len(CaseCalls) = docket_index
          /\ \A i \in 1..docket_index : CaseCalls[i] = <<"case", unique_dockets[i]>>
    /\ DuplicateFree(CaseCalls)
    /\ \A i \in FailedCaseCalls : \A j \in DOMAIN m.calls :
          m.calls[j][1] \in {"url", "pdf"} => m.calls[j][2] # m.calls[i][2]
    /\ (pc = "done" /\ needed > 0 /\ all_dockets # <<>>) =>
          (orders_collected >= needed \/ Len(CaseCalls) = Cardinality(Range(all_dockets)))

\* the fetch of one case failed and a later case was fetched and downloaded from
C12_Witness ==
    \E i \in FailedCaseCalls : \E j \in DOMAIN m.calls :
        /\ j > i
        /\ m.calls[j][1] = "pdf"
        /\ m.calls[j][2] # m.calls[i][2]

\* the requests of the two download steps (URL request, binary fetch)
DownloadCalls == {j \in DOMAIN m.calls : m.calls[j][1] \in {"url", "pdf"}}

\* C14: no download-URL request and no binary fetch is ever issued for a
\* docket entry whose sealed flag is true, and download_document is never
\* called for one.
C14_SealedNeverDownloaded ==
    /\ \A j \in DownloadCalls :
          \A e \in Range(api.cases[m.calls[j][2]]) :
              e.docketEntryId = m.calls[j][3] => ~e.isSealed
    /\ \A i \in DOMAIN results : ~results[i].order.sealed

\* a document was fetched that stands, in its docket, behind a sealed entry of
\* a wanted type: the sealed entry was passed over
C14_Witness ==
    \E j \in DownloadCalls :
        LET entries == api.cases[m.calls[j][2]]
        IN  /\ m.calls[j][1] = "pdf"
            /\ \E a, b \in DOMAIN entries :
                  /\ a < b
                  /\ entries[a].isSealed
                  /\ entries[a].docketEntryId # NoId
                  /\ MatchesDocumentType(cfg.match_mode, entries[a].documentType,
                                         cfg.document_types)
                  /\ entries[b].docketEntryId = m.calls[j][3]

\* a call of the given method has returned
Returned(fn) == call.fn = fn /\ ret # <<>>

\* the positions of the docket entries that meet the three conditions
KeptPositions(entries) ==
    {i \in DOMAIN entries :
        /\ MatchesDocumentType(cfg.match_mode, entries[i].documentType,
                               cfg.document_types)
        /\ ~entries[i].isSealed
        /\ entries[i].docketEntryId # NoId}

\* the k-th smallest element of a set of positions
KthOf(S, k) == CHOOSE i \in S : Cardinality({j \in S : j < i}) = k - 1

\* C13: filter_court_orders returns, in the docket's order and each once,
\* exactly the entries whose type matches the wanted types under the
\* configured mode, that are not sealed and that carry a non-empty id; no
\* sealed entry is in the output in any mode.
C13_FilterExactlyWanted ==
    Returned("filter_court_orders") =>
        LET entries == call.entries
            out     == ret[1]
            kept    == KeptPositions(entries)
        IN  /\ Len(out) = Cardinality(kept)
            /\ \A k \in DOMAIN out :
                  LET e == entries[KthOf(kept, k)]
                  IN  /\ out[k].docket_number = call.docket_number
                      /\ out[k].docket_entry_id = e.docketEntryId
                      /\ out[k].document_type = e.documentType
                      /\ out[k].filed_date = e.filingDate
            /\ \A k \in DOMAIN out : ~out[k].sealed

\* of a full docket with a sealed entry or an entry without id, two entries
\* of differently spelled wanted types are returned
C13_Witness ==
    /\ Returned("filter_court_orders")
    /\ Len(call.entries) = MaxEntries
    /\ Len(ret[1]) = 2
    /\ ret[1][1].document_type # ret[1][2].document_type
    /\ \E i \in DOMAIN call.entries :
          call.entries[i].isSealed \/ call.entries[i].docketEntryId = NoId

\* two characters are the same letter, whatever their case
SameLetter(c, d) == LowerChar(c) = LowerChar(d)

\* the strings are equal letter by letter over their whole length
EqualIgnoringCase(a, b) ==
    Len(a) = Len(b) /\ \A i \in DOMAIN a : SameLetter(a[i], b[i])

\* wanted occurs in reported: at some offset every letter of wanted is there
OccursIgnoringCase(wanted, reported) ==
    \E k \in 0..(Len(reported) - Len(wanted)) :
        \A i \in DOMAIN wanted : SameLetter(wanted[i], reported[k + i])

\* C15: _matches_document_type is true, in mode 'exact', iff the reported
\* type equals some wanted type case-insensitively over the whole string,
\* and, in any other mode, iff some wanted type occurs case-insensitively
\* and contiguously inside the reported type (wanted in reported).
C15_MatcherSemantics ==
    Returned("_matches_document_type") =>
        LET wanted   == call.allowed_types
            reported == call.document_type
        IN  ret[1] =
              IF cfg.match_mode = "exact"
              THEN \E i \in DOMAIN wanted : EqualIgnoringCase(wanted[i], reported)
              ELSE \E i \in DOMAIN wanted : OccursIgnoringCase(wanted[i], reported)

\* in a mode other than the two documented ones, a reported type that is
\* longer than the one wanted type, which differs in case, is matched
C15_Witness ==
    /\ Returned("_matches_document_type")
    /\ cfg.match_mode = "fuzzy"
    /\ ret[1]
    /\ Len(call.allowed_types) = 1
    /\ call.allowed_types[1] # <<>>
    /\ Len(call.allowed_types[1]) < Len(call.document_type)
    /\ ~IsSubstring(call.allowed_types[1], call.document_type)

\* C16: for every case id, document id and filing date, the scan of the file
\* download_document writes for them registers exactly that document id.
\* Fails for a case id that holds '/': the '_' put in its place is a
\* separator to the scan.
C16_FilenameRoundTrip ==
    Returned("download_then_scan") => ret[1] = {call.document_id}

\* the positions of the separator in the stem of a file name
Separators(name) == {i \in DOMAIN Stem(name) : Stem(name)[i] = "_"}

\* the number of '_'-separated segments of the stem
SegmentCount(name) == Cardinality(Separators(name)) + 1

\* what stands between the first separator and the next one (or the end)
SecondSegment(name) ==
    LET seps  == Separators(name)
        first == CHOOSE i \in seps : \A j \in seps : i <= j
        later == {i \in seps : i > first}
        stop  == IF later = {} THEN Len(Stem(name)) + 1
                 ELSE CHOOSE i \in later : \A j \in later : i <= j
    IN  SubSeq(Stem(name), first + 1, stop - 1)

\* C18: the scan registers an id only for the names of three segments,
\* {caseId}_{documentId}_{date}; a name with another number of segments
\* contributes nothing.  Fails for names of two and of four segments, whose
\* second segment is registered as well.
C18_OnlyThreeSegmentNames ==
    Returned("_scan_existing_documents") =>
        ret[1] = {SecondSegment(f) : f \in {g \in call.pdf_files : SegmentCount(g) = 3}}

\* the matching unsealed documents of the cases the searches returned, each
\* named by its case and its place in the filtered docket
FoundDocuments ==
    UNION {{<<d, i>> : i \in 1..Cardinality(KeptPositions(api.cases[d]))} :
              d \in Range(all_dockets)}

\* the document id of one of them
FoundId(x) == api.cases[x[1]][KthOf(KeptPositions(api.cases[x[1]]), x[2])].docketEntryId

\* C17: a run that started on an empty index, with no per-type minimum, in
\* which no call failed, over documents of pairwise distinct ids of which
\* the searched cases hold at least num_orders, ends with num_orders
\* collected, nothing skipped, no error and a summary that reports
\* num_orders downloaded, whatever order the cases were shuffled into.
C17_EndToEndCompletion ==
    ( /\ pc = "done"
      /\ existing_at_start = {}
      /\ cfg.min_per_type = 0
      /\ faults = 0
      /\ \A x, y \in FoundDocuments : FoundId(x) = FoundId(y) => x = y
      /\ Cardinality(FoundDocuments) >= cfg.num_orders )
    => /\ orders_collected = cfg.num_orders
       /\ m.stats.orders_skipped = 0
       /\ m.stats.errors = 0
       /\ m.stats.orders_downloaded = cfg.num_orders
       /\ Len(summaries) = 1
       /\ summaries[1].downloaded = cfg.num_orders
       /\ summaries[1].skipped = 0
       /\ summaries[1].errors = 0

\* target 3 over two cases that yield 2 and 1 documents, the case with one
\* document taken first: the run is over with three downloads from two cases
C17_Witness ==
    /\ pc = "done" /\ run = 1
    /\ cfg.num_orders = 3 /\ cfg.min_per_type = 0 /\ faults = 0
    /\ existing_at_start = {}
    /\ Len(unique_dockets) = 2
    /\ Cardinality(KeptPositions(api.cases[unique_dockets[1]])) = 1
    /\ Cardinality(KeptPositions(api.cases[unique_dockets[2]])) = 2
    /\ Cardinality(FoundDocuments) = 3
    /\ Cardinality(CallsOfKind("pdf")) = 3
    /\ summaries # <<>>

\* the configured type name is the first one, in the configured order, that
\* equals the reported type case-insensitively
FirstEqualName(t, reported) ==
    \E i \in DOMAIN cfg.document_types :
        /\ cfg.document_types[i] = t
        /\ EqualIgnoringCase(t, reported)
        /\ \A j \in 1..(i - 1) : ~EqualIgnoringCase(cfg.document_types[j], reported)

\* C19: extract_orders starts with a count of 0 for every configured type;
\* during a run no count decreases; a 'downloaded' outcome adds exactly 1 to
\* the count of the first configured name equal, case-insensitively, to the
\* document's reported type and leaves every other count, so a downloaded
\* document equal to no configured name changes none; 'skipped', 'error'
\* and every other step of the run change no count.
C19_QuotaStateUpdate ==
    [][ /\ (pc = "start" /\ pc' # "start") =>
              /\ DOMAIN type_counts' = Range(cfg.document_types)
              /\ \A t \in DOMAIN type_counts' : type_counts'[t] = 0
        /\ (pc # "start" /\ run' = run) =>
              /\ DOMAIN type_counts' = DOMAIN type_counts
              /\ \A t \in DOMAIN type_counts : type_counts'[t] >= type_counts[t]
              /\ (Attempted /\ LastAttempt.result = "downloaded") =>
                    \A t \in DOMAIN type_counts :
                        type_counts'[t] =
                            IF FirstEqualName(t, LastAttempt.order.document_type)
                            THEN type_counts[t] + 1
                            ELSE type_counts[t]
              /\ ~(Attempted /\ LastAttempt.result = "downloaded") =>
                    type_counts' = type_counts
      ]_vars

\* with the names 'A' and 'a' both configured, a downloaded document of
\* reported type 'a' was counted under 'A', the first of the two, only
C19_Witness ==
    /\ Len(cfg.document_types) = 3
    /\ pc \in {"loop", "docs", "done"}
    /\ \E i \in DOMAIN results :
          /\ results[i].result = "downloaded"
          /\ results[i].order.document_type = TypeLowA
    /\ type_counts[TypeA] = 1
    /\ type_counts[TypeLowA] = 0

\* C20: every run of extract_orders ends, given that every network call and
\* file write returns; and at no time has the run made more case-detail
\* fetches than there are distinct case identifiers in the search results.
C20_Termination ==
    /\ [](Len(CaseCalls) <= Cardinality(Range(all_dockets)))
    /\ [](pc # "done" => <>(pc = "done"))

\* a run that fetched every case of a list of more than one, with failures
\* on the way, is over
C20_Witness ==
    /\ pc = "done"
    /\ Cardinality(Range(all_dockets)) > 1
    /\ Len(CaseCalls) = Cardinality(Range(all_dockets))
    /\ FailedCaseCalls # {}
    /\ summaries # <<>>

\* C21: from the moment orders_collected has reached needed, no step of the
\* run issues a network call: no case-detail fetch, no download-URL request
\* and no binary fetch is made before the summary, whatever dockets or
\* candidates are left.
C21_NoCallAfterTarget ==
    [][ (pc \in {"loop", "docs"} /\ orders_collected >= needed)
            => /\ m'.calls = m.calls
               /\ m'.stats.api_calls = m.stats.api_calls
               /\ pc' \in {"loop", "done"}
      ]_vars

\* the run is over with its target reached by a download from a docket that
\* lists a further candidate, and with a docket left that was never fetched
C21_Witness ==
    /\ pc = "done" /\ needed > 0 /\ orders_collected = needed
    /\ summaries # <<>>
    /\ docket_index < Len(unique_dockets)
    /\ results # <<>>
    /\ LET last    == results[Len(results)]
           entries == api.cases[last.order.docket_number]
           kept    == KeptPositions(entries)
       IN  /\ last.result = "downloaded"
           /\ \E a, b \in kept :
                 /\ a < b
                 /\ entries[a].docketEntryId = last.order.docket_entry_id
                 /\ entries[b].docketEntryId \notin m.existing_docs

\* C22: after every download_document call of a run the in-memory index
\* holds as many ids as it held at the start of the run plus the downloaded
\* counter; the total a summary reports is therefore the count at the start
\* plus the downloads it reports; and a 'skipped' outcome adds 1 to the
\* skipped counter and changes nothing else: not the index, not the other
\* counters, not the collected count, not the files, not the calls made.
C22_SummaryConsistency ==
    [][ /\ Attempted =>
              /\ Cardinality(m'.existing_docs) =
                     Cardinality(existing_at_start') + m'.stats.orders_downloaded
              /\ LastAttempt.result = "skipped" =>
                    /\ m' = [m EXCEPT !.stats.orders_skipped = @ + 1]
                    /\ orders_collected' = orders_collected
                    /\ type_counts' = type_counts
        /\ Len(summaries') = Len(summaries) + 1 =>
              LET printed == summaries'[Len(summaries')]
              IN  /\ printed.total = Cardinality(existing_at_start) + printed.downloaded
                  /\ printed.downloaded = m.stats.orders_downloaded
      ]_vars

\* a run that began with a non-empty index, skipped a document found in it
\* and downloaded another has printed its summary
C22_Witness ==
    /\ pc = "done" /\ summaries # <<>>
    /\ existing_at_start # {}
    /\ \E i, j \in DOMAIN results :
          /\ results[i].result = "skipped"
          /\ results[j].result = "downloaded"
    /\ summaries[1].total > Cardinality(existing_at_start)

====
